---- MODULE Spec2Model ----
(***************************************************************************)
(* Model of the combined ChartInk scanner                                  *)
(* (src/combined-chartink-scanner.py, src/browser_manager.py).             *)
(*                                                                         *)
(* Scraped cell text is a sequence of one-character strings.  A stock is   *)
(* the dict built by extract_stock_data; filter_stocks_by_market_trend     *)
(* adds the key market_bias to it.  Floats are integers, plus the value    *)
(* NaN where a function can be handed one.  Timestamps are one token.      *)
(***************************************************************************)
EXTENDS Integers, Sequences, FiniteSets, TLC

\* ------------------------------------------------------------------------
\* Bounds of the model
\* ------------------------------------------------------------------------
MaxRows == 1      \* rows of a screener result table in the scan loop
MaxLen == 2       \* stocks per screener list handed to a function on its own
MaxText == 2      \* characters of a change text handed to determine_stock_trend
MaxBatch == 3     \* rows of a result table handed to extract_stock_data on its own
MaxField == 1     \* characters of a price, change or volume text handed to validate_stock_data
MaxChange == 3    \* magnitude of a change number handed to determine_stock_trend
MaxIdx == 3       \* index symbols per list handed to the market-bias rule

\* ------------------------------------------------------------------------
\* Configuration (lines 17-29)
\* ------------------------------------------------------------------------
SCREENER_URLS == <<"price_crossover_200", "one_hour_rsi", "five_min_rsi">>

SourceSet == {SCREENER_URLS[i] : i \in 1..Len(SCREENER_URLS)}

key_indices == <<"NIFTY", "BANKNIFTY", "NIFTYFINSERVICE">>

Timestamp == "t"

Biases == {"bullish", "bearish", "neutral", "unknown"}

\* ------------------------------------------------------------------------
\* Text and numbers
\* ------------------------------------------------------------------------
Digits == {"0", "1"}

Chars == Digits \cup {"-", ",", "%", "x"}

\* str.replace(ch, '')
Replace(s, ch) == SelectSeq(s, LAMBDA c : c # ch)

IsNumeral(s) == Len(s) > 0 /\ \A i \in 1..Len(s) : s[i] \in Digits

RECURSIVE DigitsValue(_)
DigitsValue(s) ==
    IF s = <<>> THEN 0
    ELSE 10 * DigitsValue(SubSeq(s, 1, Len(s) - 1))
         + (IF s[Len(s)] = "1" THEN 1 ELSE 0)

\* float(text) and int(text) on the alphabet Chars: an optional minus sign
\* and one or more digits; anything else raises ValueError (ok = FALSE).
ParseNumber(s) ==
    IF s # <<>> /\ s[1] = "-"
    THEN IF IsNumeral(Tail(s))
         THEN [ok |-> TRUE, v |-> 0 - DigitsValue(Tail(s))]
         ELSE [ok |-> FALSE, v |-> 0]
    ELSE IF IsNumeral(s)
         THEN [ok |-> TRUE, v |-> DigitsValue(s)]
         ELSE [ok |-> FALSE, v |-> 0]

\* Values that determine_stock_trend can be handed: a float (t = "float"),
\* the float NaN (t = "nan"), a str (t = "str") or None (t = "none").
FloatVal(n) == [t |-> "float", n |-> n, s |-> <<>>]
NaNVal == [t |-> "nan", n |-> 0, s |-> <<>>]
StrVal(s) == [t |-> "str", n |-> 0, s |-> s]
NoneVal == [t |-> "none", n |-> 0, s |-> <<>>]

\* ------------------------------------------------------------------------
\* determine_stock_trend (lines 188-194)
\* ------------------------------------------------------------------------
determine_stock_trend_zero_bullish(change) ==
    LET change_val == IF change.t = "str" THEN
                          IF ParseNumber(change.s).ok
                          THEN FloatVal(ParseNumber(change.s).v)
                          ELSE [t |-> "ValueError", n |-> 0, s |-> <<>>]
                      ELSE change
    IN  IF change_val.t = "ValueError" THEN "unknown"
        ELSE IF change_val.t = "none" THEN "unknown"
        ELSE IF change_val.t = "nan" THEN "bearish"
        ELSE IF change_val.n >= 0 THEN "bullish" ELSE "bearish"

determine_stock_trend(change) ==
    LET change_val == IF change.t = "str" THEN
                          IF ParseNumber(change.s).ok
                          THEN FloatVal(ParseNumber(change.s).v)
                          ELSE [t |-> "ValueError", n |-> 0, s |-> <<>>]
                      ELSE change
    IN  IF change_val.t = "ValueError" THEN "unknown"     \* float(str) raised
        ELSE IF change_val.t = "none" THEN "unknown"      \* None > 0: TypeError
        ELSE IF change_val.t = "nan" THEN "bearish"       \* nan > 0 is False
        ELSE IF change_val.n > 0 THEN "bullish" ELSE "bearish"

\* ------------------------------------------------------------------------
\* validate_stock_data (lines 171-186): TRUE when it returns True, FALSE
\* when it raises ValueError.
\* ------------------------------------------------------------------------
validate_stock_data(symbol, price, change, volume) ==
    /\ ~(symbol = <<>> \/ Len(symbol) < 2)
    /\ price # <<>> => ParseNumber(Replace(price, ",")).ok
    /\ change # <<>> => ParseNumber(Replace(Replace(change, "%"), ",")).ok
    /\ volume # <<>> => ParseNumber(Replace(volume, ",")).ok

\* ------------------------------------------------------------------------
\* extract_stock_data (lines 196-244)
\* ------------------------------------------------------------------------
\* Body of the row loop (lines 207-239): ok = FALSE when the row raised and
\* was skipped.
ExtractRow(row, screener_type) ==
    LET price == ParseNumber(Replace(row.price, ","))
        change == ParseNumber(Replace(Replace(row.change, "%"), ","))
        volume == ParseNumber(Replace(row.volume, ","))
    IN  IF /\ validate_stock_data(row.symbol, row.price, row.change, row.volume)
           /\ price.ok /\ change.ok /\ volume.ok
        THEN [ok |-> TRUE,
              stock |-> [symbol |-> row.symbol,
                         price |-> price.v,
                         change |-> change.v,
                         volume |-> volume.v,
                         stock_trend |-> determine_stock_trend(FloatVal(change.v)),
                         screener_type |-> screener_type]]
        ELSE [ok |-> FALSE]

RECURSIVE ExtractRows(_, _)
ExtractRows(rows, screener_type) ==
    IF rows = <<>> THEN <<>>
    ELSE LET r == ExtractRow(Head(rows), screener_type)
         IN  (IF r.ok THEN <<r.stock>> ELSE <<>>)
             \o ExtractRows(Tail(rows), screener_type)

\* table_found = FALSE: the wait for the result table raised (lines 242-244).
extract_stock_data_without_row_handler(table_found, rows, screener_type) ==
    IF table_found /\ \A i \in 1..Len(rows) : ExtractRow(rows[i], screener_type).ok
    THEN ExtractRows(rows, screener_type)
    ELSE <<>>

extract_stock_data(table_found, rows, screener_type) ==
    IF table_found THEN ExtractRows(rows, screener_type) ELSE <<>>

\* ------------------------------------------------------------------------
\* filter_stocks_by_market_trend (lines 246-276)
\* ------------------------------------------------------------------------
\* stock['market_bias'] = market_bias (line 255)
Stamp_with_unknown(stock, market_bias) ==
    [k \in DOMAIN stock \cup {"market_bias"} |->
        IF k = "market_bias" THEN "unknown" ELSE stock[k]]

Stamp(stock, market_bias) ==
    [k \in DOMAIN stock \cup {"market_bias"} |->
        IF k = "market_bias" THEN market_bias ELSE stock[k]]

\* the if/elif chain (lines 258-270): TRUE when the stock is appended
Keeps_neutral_as_else(stock, market_bias) ==
    IF market_bias = "bullish" /\ stock.stock_trend = "bullish" THEN TRUE
    ELSE IF market_bias = "bearish" /\ stock.stock_trend = "bearish" THEN TRUE
    ELSE IF market_bias = "bullish" \/ market_bias = "bearish" THEN FALSE
    ELSE TRUE

Keeps(stock, market_bias) ==
    IF market_bias = "bullish" /\ stock.stock_trend = "bullish" THEN TRUE
    ELSE IF market_bias = "bearish" /\ stock.stock_trend = "bearish" THEN TRUE
    ELSE IF market_bias = "neutral" THEN TRUE
    ELSE FALSE

\* the for loop (lines 253-270)
RECURSIVE FilterLoop(_, _)
FilterLoop(stocks, market_bias) ==
    IF stocks = <<>> THEN <<>>
    ELSE LET stock == Stamp(Head(stocks), market_bias)
         IN  (IF Keeps(stock, market_bias) THEN <<stock>> ELSE <<>>)
             \o FilterLoop(Tail(stocks), market_bias)

filter_stocks_by_market_trend(stocks, market_bias) ==
    IF stocks = <<>> THEN <<>> ELSE FilterLoop(stocks, market_bias)

\* ------------------------------------------------------------------------
\* find_stocks_in_multiple_screeners (lines 349-422)
\* ------------------------------------------------------------------------
SymbolsOf(stocks_list) == {stocks_list[i].symbol : i \in 1..Len(stocks_list)}

\* lines 352-381; in Python "a & b - c" is a & (b - c)
CombinedSymbols_without_1h_and_5m(results_data) ==
    LET price_crossover_symbols == SymbolsOf(results_data.screeners["price_crossover_200"])
        one_hour_rsi_symbols == SymbolsOf(results_data.screeners["one_hour_rsi"])
        five_min_rsi_symbols == SymbolsOf(results_data.screeners["five_min_rsi"])
        symbols_in_all == price_crossover_symbols \cap one_hour_rsi_symbols
                          \cap five_min_rsi_symbols
        symbols_in_pc_and_1h == price_crossover_symbols
                                \cap (one_hour_rsi_symbols \ five_min_rsi_symbols)
        symbols_in_pc_and_5m == price_crossover_symbols
                                \cap (five_min_rsi_symbols \ one_hour_rsi_symbols)
    IN  symbols_in_all \cup symbols_in_pc_and_1h \cup symbols_in_pc_and_5m

CombinedSymbols(results_data) ==
    LET price_crossover_symbols == SymbolsOf(results_data.screeners["price_crossover_200"])
        one_hour_rsi_symbols == SymbolsOf(results_data.screeners["one_hour_rsi"])
        five_min_rsi_symbols == SymbolsOf(results_data.screeners["five_min_rsi"])
        symbols_in_all == price_crossover_symbols \cap one_hour_rsi_symbols
                          \cap five_min_rsi_symbols
        symbols_in_pc_and_1h == price_crossover_symbols
                                \cap (one_hour_rsi_symbols \ five_min_rsi_symbols)
        symbols_in_pc_and_5m == price_crossover_symbols
                                \cap (five_min_rsi_symbols \ one_hour_rsi_symbols)
        symbols_in_1h_and_5m == one_hour_rsi_symbols
                                \cap (five_min_rsi_symbols \ price_crossover_symbols)
    IN  symbols_in_all \cup symbols_in_pc_and_1h \cup symbols_in_pc_and_5m
        \cup symbols_in_1h_and_5m

\* all_stocks_by_symbol[symbol] (lines 386-394): the stocks with that symbol,
\* screener by screener in the order of the screeners dict, list order within.
RECURSIVE StockInstances(_, _, _)
StockInstances(results_data, symbol, i) ==
    IF i > Len(SCREENER_URLS) THEN <<>>
    ELSE SelectSeq(results_data.screeners[SCREENER_URLS[i]],
                   LAMBDA stock : stock.symbol = symbol)
         \o StockInstances(results_data, symbol, i + 1)

\* lines 398-417, for a symbol that has instances
CombinedStock_last_instance(results_data, symbol) ==
    LET stock_instances == StockInstances(results_data, symbol, 1)
        base_stock == stock_instances[Len(stock_instances)]
        screeners_found_in == [i \in 1..Len(stock_instances) |->
                                  stock_instances[i].screener_type]
    IN  [symbol |-> symbol,
         price |-> base_stock.price,
         change |-> base_stock.change,
         volume |-> base_stock.volume,
         stock_trend |-> base_stock.stock_trend,
         market_bias |-> base_stock.market_bias,
         screeners_found_in |-> screeners_found_in,
         match_count |-> Len(screeners_found_in)]

CombinedStock(results_data, symbol) ==
    LET stock_instances == StockInstances(results_data, symbol, 1)
        base_stock == stock_instances[1]
        screeners_found_in == [i \in 1..Len(stock_instances) |->
                                  stock_instances[i].screener_type]
    IN  [symbol |-> symbol,
         price |-> base_stock.price,
         change |-> base_stock.change,
         volume |-> base_stock.volume,
         stock_trend |-> base_stock.stock_trend,
         market_bias |-> base_stock.market_bias,
         screeners_found_in |-> screeners_found_in,
         match_count |-> Len(screeners_found_in)]

\* The orders in which "for symbol in combined_symbols" (line 397) can visit
\* a Python set of strings: any order.
Orders(S) == {o \in [1..Cardinality(S) -> S] :
                 \A i, j \in 1..Cardinality(S) : i # j => o[i] # o[j]}

\* lines 397-420, visiting the symbols in the order "order"
RECURSIVE CombineLoop(_, _)
CombineLoop(results_data, order) ==
    IF order = <<>> THEN <<>>
    ELSE (IF StockInstances(results_data, Head(order), 1) = <<>>
          THEN <<>>
          ELSE <<CombinedStock(results_data, Head(order))>>)
         \o CombineLoop(results_data, Tail(order))

\* The list returned when the set combined_symbols is visited in "order".
find_stocks_in_multiple_screeners(results_data, order) ==
    CombineLoop(results_data, order)

\* ------------------------------------------------------------------------
\* Market bias (check_market_trend, lines 322-332)
\* ------------------------------------------------------------------------
Elements(list) == {list[i] : i \in 1..Len(list)}

KeyCount(indices) ==
    Cardinality({i \in 1..Len(key_indices) : key_indices[i] \in Elements(indices)})

DetermineMarketBias_tie_is_bullish(bullish_indices, bearish_indices) ==
    LET bullish_count == KeyCount(bullish_indices)
        bearish_count == KeyCount(bearish_indices)
    IN  IF bullish_count >= bearish_count THEN "bullish"
        ELSE "bearish"

DetermineMarketBias_bearish_needs_two(bullish_indices, bearish_indices) ==
    LET bullish_count == KeyCount(bullish_indices)
        bearish_count == KeyCount(bearish_indices)
    IN  IF bullish_count > bearish_count THEN "bullish"
        ELSE IF bearish_count > bullish_count + 1 THEN "bearish"
        ELSE "neutral"

DetermineMarketBias(bullish_indices, bearish_indices) ==
    LET bullish_count == KeyCount(bullish_indices)
        bearish_count == KeyCount(bearish_indices)
    IN  IF bullish_count > bearish_count THEN "bullish"
        ELSE IF bearish_count > bullish_count THEN "bearish"
        ELSE "neutral"

\* ------------------------------------------------------------------------
\* Files and the persisted state
\* ------------------------------------------------------------------------
\* a local of main that has no value yet
Unassigned == [unassigned |-> TRUE]

Absent == [kind |-> "absent"]
Partial == [kind |-> "partial"]            \* opened for writing, dump not complete
Json(data) == [kind |-> "json", data |-> data]

\* The dict of lines 74-83, 112-121 and 124-133
DefaultResults_without_five_min ==
    [last_update |-> "",
     market_bias |-> "unknown",
     screeners |-> [s \in SourceSet \ {"five_min_rsi"} |-> <<>>],
     combined_stocks |-> <<>>]

DefaultResults ==
    [last_update |-> "",
     market_bias |-> "unknown",
     screeners |-> [s \in SourceSet |-> <<>>],
     combined_stocks |-> <<>>]

\* load_current_results (lines 105-133).  readable = FALSE: open raises
\* (permission, disk); json.load raises on a file that is not complete JSON.
\* raised tells whether an exception leaves the function.
LoadOutcome_without_handler(file, readable) ==
    IF file.kind = "absent"
    THEN [raised |-> FALSE, value |-> DefaultResults]
    ELSE IF ~readable \/ file.kind # "json"
    THEN [raised |-> TRUE, value |-> Unassigned]
    ELSE [raised |-> FALSE, value |-> file.data]

LoadOutcome(file, readable) ==
    IF file.kind = "absent"
    THEN [raised |-> FALSE, value |-> DefaultResults]      \* lines 111-121
    ELSE IF ~readable \/ file.kind # "json"
    THEN [raised |-> FALSE, value |-> DefaultResults]      \* lines 122-133
    ELSE [raised |-> FALSE, value |-> file.data]           \* lines 109-110

\* the call of line 475, on a file that can be opened
load_current_results(file) == LoadOutcome(file, TRUE).value

\* ------------------------------------------------------------------------
\* run_screener (lines 424-449)
\* ------------------------------------------------------------------------
run_screener_clears_on_failure(screener_type, market_bias_arg, results_data_arg, load_ok, scan_ok, table_found, rows) ==
    IF load_ok /\ scan_ok
    THEN LET all_stock_data == extract_stock_data(table_found, rows, screener_type)
         IN  IF all_stock_data # <<>>
             THEN [results_data_arg EXCEPT !.screeners[screener_type] =
                      filter_stocks_by_market_trend(all_stock_data, market_bias_arg)]
             ELSE [results_data_arg EXCEPT !.screeners[screener_type] = <<>>]
    ELSE [results_data_arg EXCEPT !.screeners[screener_type] = <<>>]

run_screener_keeps_on_no_records(screener_type, market_bias_arg, results_data_arg, load_ok, scan_ok, table_found, rows) ==
    IF load_ok /\ scan_ok
    THEN LET all_stock_data == extract_stock_data(table_found, rows, screener_type)
         IN  IF all_stock_data # <<>>
             THEN [results_data_arg EXCEPT !.screeners[screener_type] =
                      filter_stocks_by_market_trend(all_stock_data, market_bias_arg)]
             ELSE results_data_arg
    ELSE results_data_arg

run_screener(screener_type, market_bias_arg, results_data_arg, load_ok, scan_ok, table_found, rows) ==
    IF load_ok /\ scan_ok
    THEN LET all_stock_data == extract_stock_data(table_found, rows, screener_type)
         IN  IF all_stock_data # <<>>
             THEN [results_data_arg EXCEPT !.screeners[screener_type] =
                      filter_stocks_by_market_trend(all_stock_data, market_bias_arg)]
             ELSE [results_data_arg EXCEPT !.screeners[screener_type] = <<>>]
    ELSE results_data_arg

\* ------------------------------------------------------------------------
\* What the site can show
\* ------------------------------------------------------------------------
SeqsUpTo(S, n) == UNION {[1..k -> S] : k \in 0..n}

RowUp == [symbol |-> <<"A", "A">>, change |-> <<"1", "%">>,
          price |-> <<"1", ",", "0">>, volume |-> <<"1", "0">>]
RowBad == [symbol |-> <<"A", "A">>, change |-> <<"1">>,
           price |-> <<"x">>, volume |-> <<"1">>]

Rows == {RowUp, RowBad}

Pages == SeqsUpTo(Rows, MaxRows)

IndexPages == {<<>>, <<"NIFTY">>}

\* ------------------------------------------------------------------------
\* State
\* ------------------------------------------------------------------------
VARIABLES
    pc,               \* position of main
    resultsFile,      \* RESULTS_FILE
    tmpFile,          \* RESULTS_FILE + ".tmp"
    trendFile,        \* MARKET_TREND_FILE
    results_data,     \* main's local
    market_bias,      \* main's local
    idx,              \* position of the for loop over SCREENER_URLS
    driver,           \* main's local: TRUE when it holds a driver
    drivers,          \* BrowserManager.drivers (its keys)
    exit_cause,       \* which handler of main's try ran
    raised_by,        \* the call whose exception reached main
    loaded_data,      \* what load_current_results returned in this cycle
    outcome,          \* per screener, how run_screener went in this cycle
    file_before_save, \* RESULTS_FILE when save_scan_results was called
    probes_failed,    \* both load_page calls of check_market_trend failed
    scraped,          \* per screener, the list run_screener stored in this cycle
    steps,            \* the calls main has completed in this cycle, in order
    now,              \* datetime.now() inside is_market_hours, while main tests it
    call,             \* a function called on its own: its arguments
    ret               \* and its result

vars == <<pc, resultsFile, tmpFile, trendFile, results_data, market_bias, idx,
          driver, drivers, exit_cause, raised_by, loaded_data, outcome,
          file_before_save, probes_failed, scraped, steps, now, call, ret>>

fileVars == <<resultsFile, tmpFile, trendFile>>
browserVars == <<driver, drivers>>
cycleVars == <<loaded_data, outcome, file_before_save, probes_failed, scraped, steps>>
callVars == <<call, ret>>

NotRaised == [fn |-> "none", at |-> "none"]

\* The clock as datetime.now() reads it (line 53); the microsecond is left
\* out: replace (lines 61-62) keeps it, so it is the same on both sides of
\* the comparisons of line 64
NoReading == [read |-> FALSE]
Reading(weekday, hour, minute, second) == [read |-> TRUE, weekday |-> weekday, hour |-> hour, minute |-> minute, second |-> second]

ClockTimes == {<<0, 0, 0>>, <<9, 15, 0>>, <<23, 58, 59>>, <<23, 59, 0>>, <<23, 59, 1>>}
ClockReadings == {Reading(d, t[1], t[2], t[3]) : d \in 0..6, t \in ClockTimes}

SecondOfDay(hour, minute, second) == (hour * 60 + minute) * 60 + second

\* is_market_hours (lines 51-67)
is_market_hours_any_weekday(t) ==
    LET market_start == SecondOfDay(0, 0, 0)
        market_end == SecondOfDay(23, 59, 0)
        at == SecondOfDay(t.hour, t.minute, t.second)
    IN  market_start <= at /\ at <= market_end

is_market_hours(t) ==
    IF t.weekday >= 5
    THEN FALSE
    ELSE LET market_start == SecondOfDay(0, 0, 0)
             market_end == SecondOfDay(23, 59, 0)
             at == SecondOfDay(t.hour, t.minute, t.second)
         IN  market_start <= at /\ at <= market_end
Raised(fn, at) == [fn |-> fn, at |-> at]

NoCall == [fn |-> "none"]
NoRet == [done |-> FALSE]

\* main before its first statement; RESULTS_FILE as an earlier run left it
MainInit ==
    /\ pc = "init"
    /\ tmpFile = Absent
    /\ trendFile = Absent
    /\ results_data = Unassigned
    /\ market_bias = "unassigned"
    /\ idx = 1
    /\ driver = FALSE
    /\ drivers = {}
    /\ exit_cause = "none"
    /\ raised_by = NotRaised
    /\ loaded_data = Unassigned
    /\ outcome = [s \in SourceSet |-> "pending"]
    /\ file_before_save = Absent
    /\ probes_failed = FALSE
    /\ scraped = [s \in SourceSet |-> <<>>]
    /\ steps = <<>>
    /\ now = NoReading

Init ==
    /\ MainInit
    /\ resultsFile \in {Absent, Partial}
    /\ call = NoCall
    /\ ret = NoRet

\* The cycle is over: nothing is observed of it any more
CycleOver ==
    /\ loaded_data' = Unassigned
    /\ outcome' = [s \in SourceSet |-> "pending"]
    /\ file_before_save' = Absent
    /\ probes_failed' = FALSE
    /\ scraped' = [s \in SourceSet |-> <<>>]
    /\ steps' = <<>>

\* main returns: its locals are gone
MainReturns ==
    /\ pc' = "exited"
    /\ results_data' = Unassigned
    /\ market_bias' = "unassigned"
    /\ idx' = 1
    /\ driver' = FALSE
    /\ now' = NoReading
    /\ CycleOver

\* ------------------------------------------------------------------------
\* initialize_results_file (lines 69-87)
\* ------------------------------------------------------------------------
\* open(RESULTS_FILE, 'w') creates the file in place
InitFileOpen ==
    /\ pc = "init"
    /\ resultsFile.kind = "absent"
    /\ resultsFile' = Partial
    /\ pc' = "init_dump"
    /\ UNCHANGED <<tmpFile, trendFile, results_data, market_bias, idx>>
    /\ UNCHANGED <<browserVars, exit_cause, raised_by, cycleVars, now, callVars>>

\* json.dump and close
InitFileDump ==
    /\ pc = "init_dump"
    /\ resultsFile' = Json(DefaultResults)
    /\ pc' = "acquire"
    /\ UNCHANGED <<tmpFile, trendFile, results_data, market_bias, idx>>
    /\ UNCHANGED <<browserVars, exit_cause, raised_by, cycleVars, now, callVars>>

\* the file exists: nothing is written
InitFileExists ==
    /\ pc = "init"
    /\ resultsFile.kind # "absent"
    /\ pc' = "acquire"
    /\ UNCHANGED <<fileVars, results_data, market_bias, idx>>
    /\ UNCHANGED <<browserVars, exit_cause, raised_by, cycleVars, now, callVars>>

\* open or dump raises: logged and re-raised (lines 85-87), outside main's try
InitFileFails ==
    /\ pc \in {"init", "init_dump"}
    /\ resultsFile.kind # "json"
    /\ pc' = "exited"
    /\ exit_cause' = "uncaught"
    /\ raised_by' = Raised("initialize_results_file", pc)
    /\ UNCHANGED <<fileVars, results_data, market_bias, idx>>
    /\ UNCHANGED <<browserVars, cycleVars, now, callVars>>

\* ------------------------------------------------------------------------
\* main (lines 451-501) and BrowserManager (browser_manager.py)
\* ------------------------------------------------------------------------
\* lines 456-460; BrowserManager.initialize_browser (browser_manager.py
\* lines 14-26) registers the driver and returns it
InitializeBrowser ==
    /\ pc = "acquire"
    /\ drivers' = drivers \cup {"combined_scanner"}
    /\ driver' = TRUE
    /\ pc' = "configure"
    /\ UNCHANGED <<fileVars, results_data, market_bias, idx>>
    /\ UNCHANGED <<exit_cause, raised_by, cycleVars, now, callVars>>

\* line 461
SetPageLoadTimeout ==
    /\ pc = "configure"
    /\ pc' = "loop"
    /\ UNCHANGED <<fileVars, results_data, market_bias, idx>>
    /\ UNCHANGED <<browserVars, exit_cause, raised_by, cycleVars, now, callVars>>

\* line 461 raises: main holds the driver
SetPageLoadTimeoutFails ==
    /\ pc = "configure"
    /\ pc' = "except"
    /\ raised_by' = Raised("set_page_load_timeout", pc)
    /\ UNCHANGED <<fileVars, results_data, market_bias, idx>>
    /\ UNCHANGED <<browserVars, exit_cause, cycleVars, now, callVars>>

\* webdriver.Chrome raises inside initialize_browser: driver stays None
InitializeBrowserFails ==
    /\ pc = "acquire"
    /\ pc' = "except"
    /\ raised_by' = Raised("initialize_browser", pc)
    /\ UNCHANGED <<fileVars, results_data, market_bias, idx>>
    /\ UNCHANGED <<browserVars, exit_cause, cycleVars, now, callVars>>

\* line 465: is_market_hours reads the clock
ReadClock ==
    /\ pc = "loop"
    /\ pc' = "hours"
    /\ now' \in ClockReadings
    /\ UNCHANGED <<fileVars, results_data, market_bias, idx>>
    /\ UNCHANGED <<browserVars, exit_cause, raised_by, cycleVars, callVars>>

\* lines 465-467, market closed: sleep and continue
OffHours ==
    /\ pc = "hours"
    /\ ~is_market_hours(now)
    /\ pc' = "off_hours_sleep"
    /\ now' = NoReading
    /\ UNCHANGED <<fileVars, results_data, market_bias, idx>>
    /\ UNCHANGED <<browserVars, exit_cause, raised_by, cycleVars, callVars>>

OffHoursWake ==
    /\ pc = "off_hours_sleep"
    /\ pc' = "loop"
    /\ UNCHANGED <<fileVars, results_data, market_bias, idx>>
    /\ UNCHANGED <<browserVars, exit_cause, raised_by, cycleVars, now, callVars>>

\* line 465, market open
MarketOpen ==
    /\ pc = "hours"
    /\ is_market_hours(now)
    /\ pc' = "probe"
    /\ now' = NoReading
    /\ UNCHANGED <<fileVars, results_data, market_bias, idx>>
    /\ UNCHANGED <<browserVars, exit_cause, raised_by, cycleVars, callVars>>

\* bullish_indices or bearish_indices after its probe (lines 285-301, 304-320)
ProbeResult(load_ok, scan_ok, rows) ==
    IF load_ok /\ scan_ok THEN rows ELSE <<>>

\* market_data (lines 337-342)
MarketData(bullish_indices, bearish_indices) ==
    [timestamp |-> Timestamp,
     market_bias |-> DetermineMarketBias(bullish_indices, bearish_indices),
     bullish_indices |-> bullish_indices,
     bearish_indices |-> bearish_indices]

\* line 472: check_market_trend returns
CheckMarketTrend ==
    /\ pc = "probe"
    /\ \E bull_load, bull_scan, bear_load, bear_scan \in BOOLEAN :
       \E bull_rows, bear_rows \in IndexPages :
          LET bullish_indices == ProbeResult(bull_load, bull_scan, bull_rows)
              bearish_indices == ProbeResult(bear_load, bear_scan, bear_rows)
          IN  /\ trendFile' = Json(MarketData(bullish_indices, bearish_indices))
              /\ market_bias' = DetermineMarketBias(bullish_indices, bearish_indices)
              /\ probes_failed' = (~bull_load /\ ~bear_load)
    /\ steps' = Append(steps, "check_market_trend")
    /\ pc' = "load"
    /\ UNCHANGED <<resultsFile, tmpFile, results_data, idx>>
    /\ UNCHANGED <<browserVars, exit_cause, raised_by>>
    /\ UNCHANGED <<loaded_data, outcome, file_before_save, scraped, now, callVars>>

\* line 472: the write of MARKET_TREND_FILE (lines 344-345) raises; open may
\* or may not have truncated the file
CheckMarketTrendRaises ==
    /\ pc = "probe"
    /\ trendFile' \in {trendFile, Partial}
    /\ pc' = "except"
    /\ raised_by' = Raised("check_market_trend", pc)
    /\ UNCHANGED <<resultsFile, tmpFile, results_data, market_bias, idx>>
    /\ UNCHANGED <<browserVars, exit_cause, cycleVars, now, callVars>>

\* lines 475-477
LoadCurrentResults ==
    /\ pc = "load"
    /\ results_data' = [load_current_results(resultsFile) EXCEPT
                           !.market_bias = market_bias,
                           !.last_update = Timestamp]
    /\ loaded_data' = load_current_results(resultsFile)
    /\ outcome' = [s \in SourceSet |-> "pending"]
    /\ steps' = Append(steps, "load_current_results")
    /\ idx' = 1
    /\ pc' = "scan"
    /\ UNCHANGED <<fileVars, market_bias, browserVars, exit_cause, raised_by>>
    /\ UNCHANGED <<file_before_save, probes_failed, scraped, now, callVars>>

\* lines 480-481, one iteration of the for loop
RunScreener_leaves_loop_after_first ==
    /\ pc = "scan"
    /\ \E load_ok, scan_ok, table_found \in BOOLEAN : \E rows \in Pages :
          /\ results_data' = run_screener(SCREENER_URLS[idx], market_bias,
                                          results_data, load_ok, scan_ok,
                                          table_found, rows)
          /\ outcome' = [outcome EXCEPT ![SCREENER_URLS[idx]] =
                            IF ~load_ok THEN "load_failed"
                            ELSE IF ~scan_ok THEN "scan_failed"
                            ELSE IF extract_stock_data(table_found, rows, SCREENER_URLS[idx]) = <<>>
                                 THEN "no_records"
                            ELSE "scanned"]
          /\ scraped' = [scraped EXCEPT ![SCREENER_URLS[idx]] =
                            IF load_ok /\ scan_ok
                            THEN results_data'.screeners[SCREENER_URLS[idx]]
                            ELSE <<>>]
    /\ steps' = Append(steps, SCREENER_URLS[idx])
    /\ idx' = 1 /\ pc' = "aggregate"
    /\ UNCHANGED <<fileVars, market_bias, browserVars, exit_cause, raised_by>>
    /\ UNCHANGED <<loaded_data, file_before_save, probes_failed, now, callVars>>

RunScreener ==
    /\ pc = "scan"
    /\ \E load_ok, scan_ok, table_found \in BOOLEAN : \E rows \in Pages :
          /\ results_data' = run_screener(SCREENER_URLS[idx], market_bias,
                                          results_data, load_ok, scan_ok,
                                          table_found, rows)
          /\ outcome' = [outcome EXCEPT ![SCREENER_URLS[idx]] =
                            IF ~load_ok THEN "load_failed"
                            ELSE IF ~scan_ok THEN "scan_failed"
                            ELSE IF extract_stock_data(table_found, rows, SCREENER_URLS[idx]) = <<>>
                                 THEN "no_records"
                            ELSE "scanned"]
          /\ scraped' = [scraped EXCEPT ![SCREENER_URLS[idx]] =
                            IF load_ok /\ scan_ok
                            THEN results_data'.screeners[SCREENER_URLS[idx]]
                            ELSE <<>>]
    /\ steps' = Append(steps, SCREENER_URLS[idx])
    /\ IF idx < Len(SCREENER_URLS)
       THEN idx' = idx + 1 /\ pc' = "scan"
       ELSE idx' = 1 /\ pc' = "aggregate"
    /\ UNCHANGED <<fileVars, market_bias, browserVars, exit_cause, raised_by>>
    /\ UNCHANGED <<loaded_data, file_before_save, probes_failed, now, callVars>>

\* lines 484-485, up to the call of save_scan_results
Aggregate ==
    /\ pc = "aggregate"
    /\ \E order \in Orders(CombinedSymbols(results_data)) :
          results_data' = [results_data EXCEPT !.combined_stocks =
                              find_stocks_in_multiple_screeners(results_data, order)]
    /\ file_before_save' = resultsFile
    /\ steps' = Append(steps, "find_stocks_in_multiple_screeners")
    /\ pc' = "save"
    /\ UNCHANGED <<fileVars, market_bias, idx, browserVars, exit_cause, raised_by>>
    /\ UNCHANGED <<loaded_data, outcome, probes_failed, scraped, now, callVars>>

\* ------------------------------------------------------------------------
\* save_scan_results (lines 89-103)
\* ------------------------------------------------------------------------
\* open(temp_file, 'w')
SaveOpenTmp ==
    /\ pc = "save"
    /\ tmpFile' = Partial
    /\ pc' = "save_dump"
    /\ UNCHANGED <<resultsFile, trendFile, results_data, market_bias, idx>>
    /\ UNCHANGED <<browserVars, exit_cause, raised_by, cycleVars, now, callVars>>

\* json.dump and close
SaveDumpTmp ==
    /\ pc = "save_dump"
    /\ tmpFile' = Json(results_data)
    /\ pc' = "save_replace"
    /\ UNCHANGED <<resultsFile, trendFile, results_data, market_bias, idx>>
    /\ UNCHANGED <<browserVars, exit_cause, raised_by, cycleVars, now, callVars>>

\* os.replace, and the return to main (lines 490-492)
SaveReplace ==
    /\ pc = "save_replace"
    /\ resultsFile' = tmpFile
    /\ tmpFile' = Absent
    /\ steps' = Append(steps, "save_scan_results")
    /\ pc' = "sleep"
    /\ UNCHANGED <<trendFile, results_data, market_bias, idx>>
    /\ UNCHANGED <<browserVars, exit_cause, raised_by, now, callVars>>
    /\ UNCHANGED <<loaded_data, outcome, file_before_save, probes_failed, scraped>>

\* the handler (lines 99-103) after open, dump or replace raised
SaveHandler_keeps_tmp(failed_at) ==
    /\ tmpFile' = tmpFile
    /\ pc' = "except"
    /\ raised_by' = Raised("save_scan_results", failed_at)
    /\ UNCHANGED <<resultsFile, trendFile, results_data, market_bias, idx>>
    /\ UNCHANGED <<browserVars, exit_cause, cycleVars, now, callVars>>

SaveHandler(failed_at) ==
    /\ tmpFile' = Absent
    /\ pc' = "except"
    /\ raised_by' = Raised("save_scan_results", failed_at)
    /\ UNCHANGED <<resultsFile, trendFile, results_data, market_bias, idx>>
    /\ UNCHANGED <<browserVars, exit_cause, cycleVars, now, callVars>>

SaveFails ==
    /\ pc \in {"save", "save_dump", "save_replace"}
    /\ SaveHandler(pc)

\* ------------------------------------------------------------------------
\* main: sleep, handlers, exit
\* ------------------------------------------------------------------------
\* line 492
Sleep ==
    /\ pc = "sleep"
    /\ pc' = "loop"
    /\ CycleOver
    /\ UNCHANGED <<fileVars, results_data, market_bias, idx>>
    /\ UNCHANGED <<browserVars, exit_cause, raised_by, now, callVars>>

TryPcs == {"acquire", "configure", "loop", "hours", "off_hours_sleep", "probe", "load", "scan", "aggregate",
           "save", "save_dump", "save_replace", "sleep"}

\* BrowserManager.kill_browser (browser_manager.py lines 28-34)
kill_browser_keeps_entry(name) ==
    drivers' = drivers

kill_browser(name) ==
    drivers' = drivers \ {name}

\* finally (lines 498-501), then main returns
Finally ==
    /\ IF driver THEN kill_browser("combined_scanner") ELSE UNCHANGED drivers
    /\ MainReturns

\* KeyboardInterrupt inside the try (lines 494-495), then finally
Interrupt ==
    /\ pc \in TryPcs
    /\ exit_cause' = "interrupt"
    /\ Finally
    /\ UNCHANGED <<fileVars, raised_by, callVars>>

\* except Exception (lines 496-497), then finally
ExceptHandler ==
    /\ pc = "except"
    /\ exit_cause' = "error"
    /\ Finally
    /\ UNCHANGED <<fileVars, raised_by, callVars>>

Next ==
    \/ InitFileOpen
    \/ InitFileDump
    \/ InitFileExists
    \/ InitFileFails
    \/ InitializeBrowser
    \/ InitializeBrowserFails
    \/ SetPageLoadTimeout
    \/ SetPageLoadTimeoutFails
    \/ ReadClock
    \/ OffHours
    \/ OffHoursWake
    \/ MarketOpen
    \/ CheckMarketTrend
    \/ CheckMarketTrendRaises
    \/ LoadCurrentResults
    \/ RunScreener
    \/ Aggregate
    \/ SaveOpenTmp
    \/ SaveDumpTmp
    \/ SaveReplace
    \/ SaveFails
    \/ Sleep
    \/ Interrupt
    \/ ExceptHandler

Spec == Init /\ [][Next]_vars

TypeOK ==
    /\ resultsFile.kind \in {"absent", "partial", "json"}
    /\ tmpFile.kind \in {"absent", "partial", "json"}
    /\ market_bias \in Biases \cup {"unassigned"}
    /\ idx \in 1..Len(SCREENER_URLS)


\* ------------------------------------------------------------------------
\* Functions called on their own
\* ------------------------------------------------------------------------
\* main has not started and stays so
MainIdle ==
    /\ MainInit
    /\ resultsFile = Absent

mainVars == <<pc, resultsFile, tmpFile, trendFile, results_data, market_bias, idx,
              driver, drivers, exit_cause, raised_by, loaded_data, outcome,
              file_before_save, probes_failed, scraped, steps, now>>

Returned(fn) == call.fn = fn /\ ret.done

\* --- find_stocks_in_multiple_screeners ----------------------------------
AA == <<"A", "A">>
BB == <<"B", "B">>

\* a stock as a screener list holds it (extracted, then stamped by the filter)
StockOf(symbol, price, screener_type) ==
    [symbol |-> symbol, price |-> price, change |-> 3 - 2 * price,
     volume |-> 10 * price,
     stock_trend |-> determine_stock_trend(FloatVal(3 - 2 * price)),
     screener_type |-> screener_type,
     market_bias |-> IF price = 1 THEN "neutral" ELSE "bearish"]

StocksOfScreener(screener_type) ==
    {StockOf(AA, 1, screener_type), StockOf(AA, 2, screener_type),
     StockOf(BB, 1, screener_type)}

ScreenerInputs ==
    {f \in [SourceSet -> UNION {SeqsUpTo(StocksOfScreener(s), MaxLen) : s \in SourceSet}] :
        \A s \in SourceSet : f[s] \in SeqsUpTo(StocksOfScreener(s), MaxLen)}

FindInit ==
    /\ MainIdle
    /\ call \in {[fn |-> "find_stocks_in_multiple_screeners",
                  results_data |-> [DefaultResults EXCEPT !.screeners = f]] :
                    f \in ScreenerInputs}
    /\ ret = NoRet

CallFind ==
    /\ call.fn = "find_stocks_in_multiple_screeners"
    /\ ~ret.done
    /\ \E order \in Orders(CombinedSymbols(call.results_data)) :
          ret' = [done |-> TRUE,
                  val |-> find_stocks_in_multiple_screeners(call.results_data, order)]
    /\ UNCHANGED <<mainVars, call>>

SpecFind == FindInit /\ [][CallFind]_vars

\* --- filter_stocks_by_market_trend --------------------------------------
\* a stock as extract_stock_data builds it (no market_bias key yet)
ExtractedStock(symbol, stock_trend) ==
    [symbol |-> symbol, price |-> 10,
     change |-> IF stock_trend = "bullish" THEN 1 ELSE 0 - 1,
     volume |-> 10, stock_trend |-> stock_trend,
     screener_type |-> "one_hour_rsi"]

ExtractedStocks ==
    {ExtractedStock(symbol, t) : symbol \in {AA, BB},
                                 t \in {"bullish", "bearish", "unknown"}}

FilterInit ==
    /\ MainIdle
    /\ call \in {[fn |-> "filter_stocks_by_market_trend", stocks |-> l, market_bias |-> b] :
                    l \in SeqsUpTo(ExtractedStocks, MaxLen), b \in Biases}
    /\ ret = NoRet

CallFilter ==
    /\ call.fn = "filter_stocks_by_market_trend"
    /\ ~ret.done
    /\ ret' = [done |-> TRUE,
               val |-> filter_stocks_by_market_trend(call.stocks, call.market_bias)]
    /\ UNCHANGED <<mainVars, call>>

SpecFilter == FilterInit /\ [][CallFilter]_vars

\* --- determine_stock_trend ----------------------------------------------
ChangeInputs ==
    {FloatVal(n) : n \in (0 - MaxChange)..MaxChange}
    \cup {NaNVal, NoneVal}
    \cup {StrVal(t) : t \in SeqsUpTo(Chars, MaxText)}

TrendInit ==
    /\ MainIdle
    /\ call \in {[fn |-> "determine_stock_trend", change |-> c] : c \in ChangeInputs}
    /\ ret = NoRet

CallTrend ==
    /\ call.fn = "determine_stock_trend"
    /\ ~ret.done
    /\ ret' = [done |-> TRUE, val |-> determine_stock_trend(call.change)]
    /\ UNCHANGED <<mainVars, call>>

SpecTrend == TrendInit /\ [][CallTrend]_vars

\* ========================================================================
\* Properties
\* ========================================================================

\* the sources whose list holds the symbol
SourcesHolding(screeners, symbol) ==
    {s \in SourceSet : \E i \in 1..Len(screeners[s]) : screeners[s][i].symbol = symbol}

SymbolsIn(screeners) ==
    UNION {{screeners[s][i].symbol : i \in 1..Len(screeners[s])} : s \in SourceSet}

InTwoOrMore(screeners) ==
    {symbol \in SymbolsIn(screeners) : Cardinality(SourcesHolding(screeners, symbol)) >= 2}

\* C1: the symbols returned by find_stocks_in_multiple_screeners are exactly
\* the symbols that occur in at least two of the three source lists, for
\* every assignment of lists (empty lists and repeats within a list included).
C1_ReturnsSymbolsInTwoOrMoreSources ==
    Returned("find_stocks_in_multiple_screeners") =>
        {ret.val[i].symbol : i \in 1..Len(ret.val)} = InTwoOrMore(call.results_data.screeners)

\* a symbol repeats within one source and is in no other, another symbol is
\* in two sources, a third source is empty
C1_Witness ==
    /\ Returned("find_stocks_in_multiple_screeners")
    /\ LET scr == call.results_data.screeners
       IN  /\ Len(scr["price_crossover_200"]) = 2
           /\ SymbolsOf(scr["price_crossover_200"]) = {AA}
           /\ SymbolsOf(scr["one_hour_rsi"]) = {BB}
           /\ SymbolsOf(scr["five_min_rsi"]) = {BB}
    /\ {ret.val[i].symbol : i \in 1..Len(ret.val)} = {BB}

\* position of a source in the iteration order
SourceIndex(s) == CHOOSE i \in 1..Len(SCREENER_URLS) : SCREENER_URLS[i] = s

\* C2: every combined signal has match_count = len(screeners_found_in),
\* 2 <= match_count <= 3, and screeners_found_in lists each source at most
\* once, in source iteration order, also when a symbol repeats in one list.
C2_MatchCountAndSourcesOnce ==
    Returned("find_stocks_in_multiple_screeners") =>
        \A i \in 1..Len(ret.val) :
            LET found == ret.val[i].screeners_found_in
            IN  /\ ret.val[i].match_count = Len(found)
                /\ ret.val[i].match_count >= 2
                /\ ret.val[i].match_count <= 3
                /\ \A j, k \in 1..Len(found) :
                      j < k => SourceIndex(found[j]) < SourceIndex(found[k])

\* C3: no step of the program leaves RESULTS_FILE partially written where a
\* concurrent reader can see it.
C3_ReaderNeverSeesPartialFile ==
    [][resultsFile'.kind = "partial" => resultsFile.kind = "partial"]_vars

\* C4: when save_scan_results fails at any step, RESULTS_FILE is as it was
\* before the call, the temporary file is gone, the exception reaches the
\* caller, and load_current_results returns what it returned before.
C4_FailedSaveLeavesFileAndRemovesTmp ==
    (pc = "except" /\ raised_by.fn = "save_scan_results") =>
        /\ resultsFile = file_before_save
        /\ tmpFile.kind = "absent"
        /\ load_current_results(resultsFile) = loaded_data

\* os.replace failed after the temporary file was written in full, with new
\* results that differ from the persisted ones
C4_Witness ==
    /\ pc = "except"
    /\ raised_by = Raised("save_scan_results", "save_replace")
    /\ resultsFile.kind = "json"
    /\ resultsFile.data.screeners # results_data.screeners

Failed(s) == outcome[s] \in {"load_failed", "scan_failed"}

\* C5: when the page load or scan trigger of a source fails, the state
\* persisted at the end of the cycle holds for that source the list of the
\* previously persisted state, the other sources hold the lists scanned in
\* this cycle, and the cycle goes on through all three sources to
\* aggregation and persistence (only an interruption leaves the scans).
C5_PersistedAfterSourceFailure ==
    pc = "sleep" =>
        /\ resultsFile = Json(results_data)
        /\ \A s \in SourceSet :
              /\ outcome[s] # "pending"
              /\ Failed(s) => resultsFile.data.screeners[s]
                              = load_current_results(file_before_save).screeners[s]
              /\ ~Failed(s) => resultsFile.data.screeners[s] = scraped[s]

C5_ScansAreNotAborted ==
    [][pc = "scan" => \/ pc' \in {"scan", "aggregate"}
                      \/ pc' = "exited" /\ exit_cause' = "interrupt"]_vars

C5_FailedSourceKeepsPriorList ==
    [](C5_PersistedAfterSourceFailure) /\ C5_ScansAreNotAborted

\* one source failed and kept a non-empty list, the other two were scanned
\* and one of them changed its list
C5_Witness ==
    /\ pc = "sleep"
    /\ Failed("one_hour_rsi")
    /\ resultsFile.data.screeners["one_hour_rsi"] # <<>>
    /\ ~Failed("price_crossover_200") /\ ~Failed("five_min_rsi")
    /\ resultsFile.data.screeners["five_min_rsi"] # <<>>
    /\ load_current_results(file_before_save).screeners["five_min_rsi"] = <<>>

\* C6: when both market-probe page loads fail, the bias of the cycle is
\* unknown and every scanned source contributes an empty list.
C6_FailedProbesGiveUnknownBias ==
    probes_failed =>
        /\ market_bias = "unknown"
        /\ \A s \in SourceSet : outcome[s] \in {"scanned", "no_records"} => scraped[s] = <<>>

\* C7: a failure raised inside a cycle (a failed save of the results file,
\* a failed write of the market snapshot file) does not end the scan loop.
C7_CycleFailureDoesNotEndLoop ==
    ~(/\ pc = "exited"
      /\ exit_cause = "error"
      /\ raised_by.fn \in {"save_scan_results", "check_market_trend"})

\* C8: every combined signal of a state persisted at the end of a cycle is
\* made only of observations scraped in that cycle.
C8_CombinedOnlyFromThisCycle ==
    pc = "sleep" =>
        \A i \in 1..Len(resultsFile.data.combined_stocks) :
            LET found == resultsFile.data.combined_stocks[i].screeners_found_in
            IN  \A j \in 1..Len(found) : outcome[found[j]] \in {"scanned", "no_records"}

\* the returned stocks without the key the filter added
Unstamped(stocks) ==
    [i \in 1..Len(stocks) |->
        [k \in DOMAIN stocks[i] \ {"market_bias"} |-> stocks[i][k]]]

\* C9: filter_stocks_by_market_trend returns exactly the bullish stocks for
\* a bullish bias, exactly the bearish stocks for a bearish bias, all stocks
\* in the same order for a neutral bias and nothing for an unknown bias.
C9_FilterSelectsByBias ==
    Returned("filter_stocks_by_market_trend") =>
        /\ call.market_bias = "bullish" =>
              Unstamped(ret.val)
              = SelectSeq(call.stocks, LAMBDA st : st.stock_trend = "bullish")
        /\ call.market_bias = "bearish" =>
              Unstamped(ret.val)
              = SelectSeq(call.stocks, LAMBDA st : st.stock_trend = "bearish")
        /\ call.market_bias = "neutral" => Unstamped(ret.val) = call.stocks
        /\ call.market_bias = "unknown" => ret.val = <<>>

\* an unknown bias drops a non-empty list
C9_Witness ==
    /\ Returned("filter_stocks_by_market_trend")
    /\ call.market_bias = "unknown"
    /\ Len(call.stocks) = MaxLen
    /\ ret.val = <<>>

\* the change is a number: a float other than NaN, or text that float() reads
IsNumber(change) ==
    \/ change.t = "float"
    \/ change.t = "str" /\ ParseNumber(change.s).ok

NumberOf(change) ==
    IF change.t = "str" THEN ParseNumber(change.s).v ELSE change.n

\* not a number: None, or text that float() rejects
NotANumber(change) ==
    \/ change.t = "none"
    \/ change.t = "str" /\ ~ParseNumber(change.s).ok

\* C10: determine_stock_trend returns bullish for every number greater than
\* 0, bearish for every number less than or equal to 0 (0 included) and
\* unknown when the change is not a number.  (The float NaN is neither
\* greater than 0 nor at most 0; it is in none of the three cases.)
C10_TrendByStrictSign ==
    Returned("determine_stock_trend") =>
        /\ (IsNumber(call.change) /\ NumberOf(call.change) > 0) => ret.val = "bullish"
        /\ (IsNumber(call.change) /\ NumberOf(call.change) <= 0) => ret.val = "bearish"
        /\ NotANumber(call.change) => ret.val = "unknown"

\* a change of exactly 0 is bearish
C10_Witness ==
    /\ Returned("determine_stock_trend")
    /\ call.change = FloatVal(0)
    /\ ret.val = "bearish"

\* --- the market-bias rule of check_market_trend --------------------------
\* index symbols a probe table can list: the key indices and another one
IndexNames == {"NIFTY", "BANKNIFTY", "NIFTYFINSERVICE", "SENSEX"}

MarketInit ==
    /\ MainIdle
    /\ call \in {[fn |-> "check_market_trend", bullish_indices |-> b, bearish_indices |-> r] :
                    b \in SeqsUpTo(IndexNames, MaxIdx), r \in SeqsUpTo(IndexNames, MaxIdx)}
    /\ ret = NoRet

\* lines 322-332 on the two lists, and on the two lists exchanged
CallMarket ==
    /\ call.fn = "check_market_trend"
    /\ ~ret.done
    /\ ret' = [done |-> TRUE,
               val |-> DetermineMarketBias(call.bullish_indices, call.bearish_indices),
               exchanged |-> DetermineMarketBias(call.bearish_indices, call.bullish_indices)]
    /\ UNCHANGED <<mainVars, call>>

SpecMarket == MarketInit /\ [][CallMarket]_vars

\* the key indices that a list of index symbols names
KeysNamed(indices) ==
    {"NIFTY", "BANKNIFTY", "NIFTYFINSERVICE"} \cap {indices[i] : i \in 1..Len(indices)}

\* C11: the market bias is bullish when more of the three key indices are in
\* the bullish collection than in the bearish one, bearish when more are in
\* the bearish collection, neutral otherwise; a key index in neither
\* collection counts for neither side; the result is never unknown.
C11_BiasByKeyIndexMajority ==
    Returned("check_market_trend") =>
        LET nb == Cardinality(KeysNamed(call.bullish_indices))
            nr == Cardinality(KeysNamed(call.bearish_indices))
        IN  /\ nb > nr => ret.val = "bullish"
            /\ nr > nb => ret.val = "bearish"
            /\ nb = nr => ret.val = "neutral"
            /\ ret.val # "unknown"

\* one key index bullish, two bearish, the third in neither list: bearish
C11_Witness ==
    /\ Returned("check_market_trend")
    /\ KeysNamed(call.bullish_indices) = {"NIFTY"}
    /\ KeysNamed(call.bearish_indices) = {"NIFTY", "BANKNIFTY"}
    /\ ret.val = "bearish"

\* the mapping has exactly the three configured keys, each holding a list
ThreeSourceKeys(data) ==
    /\ DOMAIN data.screeners = SourceSet
    /\ \A s \in SourceSet :
          DOMAIN data.screeners[s] = 1..Len(data.screeners[s])

\* C12: every aggregation state that the program holds in memory, persists
\* or gets from load_current_results has exactly the three configured source
\* keys, each with a (possibly empty) list, whatever sources failed.
C12_ExactlyThreeSourceKeys ==
    /\ "screeners" \in DOMAIN results_data => ThreeSourceKeys(results_data)
    /\ "screeners" \in DOMAIN loaded_data => ThreeSourceKeys(loaded_data)
    /\ resultsFile.kind = "json" => ThreeSourceKeys(resultsFile.data)
    /\ tmpFile.kind = "json" => ThreeSourceKeys(tmpFile.data)

\* a state persisted by a cycle in which one source failed, one found no
\* records and one stored a list, loaded from a file that was not readable
C12_Witness ==
    /\ pc = "sleep"
    /\ file_before_save.kind = "partial"
    /\ outcome["price_crossover_200"] = "load_failed"
    /\ resultsFile.data.screeners["one_hour_rsi"] = <<>>
    /\ resultsFile.data.screeners["five_min_rsi"] # <<>>

\* C13: on every path by which main exits after it acquired the browser
\* session (interruption, an error during session setup or during a cycle)
\* kill_browser has removed the session from the manager.
C13_SessionReleasedOnExit ==
    /\ pc = "exited" => "combined_scanner" \notin drivers
    /\ pc \in TryPcs \ {"acquire"} => (driver /\ "combined_scanner" \in drivers)

\* main held the session, set_page_load_timeout raised, main has returned
C13_Witness ==
    /\ pc = "exited"
    /\ exit_cause = "error"
    /\ raised_by.fn = "set_page_load_timeout"
    /\ drivers = {}

\* --- load_current_results ------------------------------------------------
\* states that a cycle can have persisted
PersistedStates ==
    {[DefaultResults EXCEPT !.last_update = Timestamp, !.market_bias = "neutral",
                            !.screeners = f] : f \in ScreenerInputs}

LoadInit ==
    /\ MainIdle
    /\ call \in {[fn |-> "load_current_results", file |-> f, readable |-> r] :
                    f \in {Absent, Partial} \cup {Json(d) : d \in PersistedStates},
                    r \in BOOLEAN}
    /\ ret = NoRet

CallLoad ==
    /\ call.fn = "load_current_results"
    /\ ~ret.done
    /\ ret' = [done |-> TRUE, val |-> LoadOutcome(call.file, call.readable)]
    /\ UNCHANGED <<mainVars, call>>

SpecLoad == LoadInit /\ [][CallLoad]_vars

\* C14: load_current_results never raises; for a results file that is
\* absent, unreadable or corrupt it returns the default state (empty
\* last_update, market_bias unknown, three empty source lists, empty combined
\* list), otherwise the persisted state.
C14_LoadNeverRaises ==
    Returned("load_current_results") =>
        /\ ~ret.val.raised
        /\ IF call.file.kind = "json" /\ call.readable
           THEN ret.val.value = call.file.data
           ELSE /\ ret.val.value.last_update = ""
                /\ ret.val.value.market_bias = "unknown"
                /\ DOMAIN ret.val.value.screeners = SourceSet
                /\ \A s \in SourceSet : ret.val.value.screeners[s] = <<>>
                /\ ret.val.value.combined_stocks = <<>>

\* a truncated file gives the default state
C14_Witness ==
    /\ Returned("load_current_results")
    /\ call.file.kind = "partial"
    /\ call.readable
    /\ ~ret.val.raised
    /\ ret.val.value.market_bias = "unknown"

\* ------------------------------------------------------------------------
\* C15: when the moment is_market_hours reads is outside the trading window
\* (a Saturday or Sunday, or later than 23:59:00), the iteration goes to the
\* off-hours sleep and from there back to the head of the loop (or main is
\* interrupted): it never reaches the probe or a scan, and RESULTS_FILE, its
\* temporary file and MARKET_TREND_FILE stay as they were.
\* ------------------------------------------------------------------------
OutsideWindow(t) ==
    \/ t.weekday \in {5, 6}
    \/ t.hour = 23 /\ t.minute = 59 /\ t.second > 0

SymbolInputs == {<<>>, <<"A">>, <<"A", "A">>}

ValidateInit ==
    /\ MainIdle
    /\ call \in {[fn |-> "validate_stock_data", symbol |-> s, price |-> p, change |-> c, volume |-> v] :
                    s \in SymbolInputs,
                    p \in SeqsUpTo(Chars, MaxField),
                    c \in SeqsUpTo(Chars, MaxField),
                    v \in SeqsUpTo(Chars, MaxField)}
    /\ ret = NoRet

CallValidate ==
    /\ call.fn = "validate_stock_data"
    /\ ~ret.done
    /\ ret' = [done |-> TRUE, val |-> validate_stock_data(call.symbol, call.price, call.change, call.volume)]
    /\ UNCHANGED <<mainVars, call>>

SpecValidate == ValidateInit /\ [][CallValidate]_vars

\* ------------------------------------------------------------------------
\* C16: validate_stock_data raises for every record whose symbol is empty or
\* shorter than 2 characters and for every record whose price, change or
\* volume text is not a number once "," (and "%" for change) is stripped,
\* the empty text included; it returns True for no such record.
\* ------------------------------------------------------------------------
Unparseable(text, stripped) ==
    LET RECURSIVE Strip(_, _)
        Strip(t, cs) == IF cs = {} THEN t
                        ELSE LET c == CHOOSE x \in cs : TRUE
                             IN  Strip(SelectSeq(t, LAMBDA y : y # c), cs \ {c})
        s == Strip(text, stripped)
    IN  ~(\/ IsNumeral(s)
          \/ Len(s) > 1 /\ s[1] = "-" /\ IsNumeral(Tail(s)))

C16_RaisesForEveryBadRecord ==
    Returned("validate_stock_data") =>
        ((\/ Len(call.symbol) < 2
          \/ Unparseable(call.price, {","})
          \/ Unparseable(call.change, {",", "%"})
          \/ Unparseable(call.volume, {","}))
         => ~ret.val)

\* ------------------------------------------------------------------------
\* C17: the price, change, volume, stock_trend and market_bias of every
\* combined stock are those of the first stock with its symbol in the first
\* of price_crossover_200, one_hour_rsi, five_min_rsi whose list holds the
\* symbol.
\* ------------------------------------------------------------------------
FirstSource(screeners, symbol) ==
    SCREENER_URLS[CHOOSE i \in 1..Len(SCREENER_URLS) :
                     /\ symbol \in SymbolsOf(screeners[SCREENER_URLS[i]])
                     /\ \A j \in 1..(i - 1) : symbol \notin SymbolsOf(screeners[SCREENER_URLS[j]])]

FirstObservation(stocks_list, symbol) ==
    stocks_list[CHOOSE i \in 1..Len(stocks_list) :
                   /\ stocks_list[i].symbol = symbol
                   /\ \A j \in 1..(i - 1) : stocks_list[j].symbol # symbol]

C18_NoRecordsPersistsEmptyList ==
    pc = "sleep" =>
        \A s \in SourceSet :
            outcome[s] = "no_records" =>
                /\ resultsFile.kind = "json"
                /\ resultsFile.data.screeners[s] = <<>>
                /\ \A o \in SourceSet : outcome[o] # "pending"

\* the file held a list for one_hour_rsi, this cycle extracted nothing for
\* it, and the source after it stored a list
C18_Witness ==
    /\ pc = "sleep"
    /\ outcome["one_hour_rsi"] = "no_records"
    /\ load_current_results(file_before_save).screeners["one_hour_rsi"] # <<>>
    /\ resultsFile.data.screeners["one_hour_rsi"] = <<>>
    /\ outcome["five_min_rsi"] = "scanned"
    /\ resultsFile.data.screeners["five_min_rsi"] # <<>>

\* --- extract_stock_data, called on its own --------------------------------
RowDown == [symbol |-> <<"B", "B">>, change |-> <<"-", "1", "%">>,
            price |-> <<"1", "1">>, volume |-> <<"1", ",", "0">>]
RowShortSymbol == [symbol |-> <<"C">>, change |-> <<"1">>,
                   price |-> <<"1">>, volume |-> <<"1">>]
RowEmptyPrice == [symbol |-> <<"D", "D">>, change |-> <<"1">>,
                  price |-> <<>>, volume |-> <<"1">>]
RowBadVolume == [symbol |-> <<"E", "E">>, change |-> <<"0">>,
                 price |-> <<"1">>, volume |-> <<"1", "%">>]

BatchRows == Rows \cup {RowDown, RowShortSymbol, RowEmptyPrice, RowBadVolume}

ExtractInit ==
    /\ MainIdle
    /\ call \in {[fn |-> "extract_stock_data", table_found |-> t, rows |-> r,
                  screener_type |-> "one_hour_rsi"] :
                    t \in BOOLEAN, r \in SeqsUpTo(BatchRows, MaxBatch)}
    /\ ret = NoRet

CallExtract ==
    /\ call.fn = "extract_stock_data"
    /\ ~ret.done
    /\ ret' = [done |-> TRUE,
               val |-> extract_stock_data(call.table_found, call.rows, call.screener_type)]
    /\ UNCHANGED <<mainVars, call>>

SpecExtract == ExtractInit /\ [][CallExtract]_vars

\* ------------------------------------------------------------------------
\* C19: of the rows of one result table, extract_stock_data returns one
\* stock for every row that passes validation and parsing, in row order,
\* however many rows of the table fail: a failing row removes only itself.
\* ------------------------------------------------------------------------
NumberText(text) ==
    \/ IsNumeral(text)
    \/ Len(text) > 1 /\ text[1] = "-" /\ IsNumeral(Tail(text))

ValidRow(row) ==
    /\ Len(row.symbol) >= 2
    /\ NumberText(SelectSeq(row.price, LAMBDA c : c # ","))
    /\ NumberText(SelectSeq(row.change, LAMBDA c : c \notin {",", "%"}))
    /\ NumberText(SelectSeq(row.volume, LAMBDA c : c # ","))

C19_BadRowDropsOnlyItself ==
    (Returned("extract_stock_data") /\ call.table_found) =>
        LET valid == SelectSeq(call.rows, ValidRow)
        IN  /\ Len(ret.val) = Len(valid)
            /\ \A i \in 1..Len(valid) :
                  /\ ret.val[i].symbol = valid[i].symbol
                  /\ ret.val[i].price = ParseNumber(Replace(valid[i].price, ",")).v
                  /\ ret.val[i].volume = ParseNumber(Replace(valid[i].volume, ",")).v

\* a row with an unparseable price between two valid rows
C19_Witness ==
    /\ Returned("extract_stock_data")
    /\ call.table_found
    /\ call.rows = <<RowUp, RowBad, RowDown>>
    /\ Len(ret.val) = 2
    /\ ret.val[1].symbol = RowUp.symbol
    /\ ret.val[2].symbol = RowDown.symbol

\* ------------------------------------------------------------------------
\* C20: the market-bias rule is symmetric: with the bullish and the bearish
\* collection exchanged it gives the bias it gave before with the labels
\* bullish and bearish exchanged, neutral staying neutral.
\* ------------------------------------------------------------------------
ExchangedLabel(bias) ==
    IF bias = "bullish" THEN "bearish"
    ELSE IF bias = "bearish" THEN "bullish"
    ELSE bias

C20_BiasRuleIsSymmetric ==
    Returned("check_market_trend") =>
        /\ ret.val \in {"bullish", "bearish", "neutral"}
        /\ ret.exchanged = ExchangedLabel(ret.val)

\* two key indices against one: bullish one way, bearish the other way
C20_Witness ==
    /\ Returned("check_market_trend")
    /\ KeysNamed(call.bullish_indices) = {"NIFTY", "NIFTYFINSERVICE"}
    /\ KeysNamed(call.bearish_indices) = {"BANKNIFTY"}
    /\ ret.val = "bullish"
    /\ ret.exchanged = "bearish"

\* ------------------------------------------------------------------------
\* C21: in every in-hours cycle main calls check_market_trend, then
\* run_screener for price_crossover_200, one_hour_rsi and five_min_rsi in
\* this order, then find_stocks_in_multiple_screeners, then
\* save_scan_results once, then sleeps; RESULTS_FILE changes in a cycle only
\* by that save; and the steps of a cycle start from none only after the
\* cycle before has saved and slept (or main has exited).
\* ------------------------------------------------------------------------
CycleOrder ==
    <<"check_market_trend", "price_crossover_200", "one_hour_rsi", "five_min_rsi",
      "find_stocks_in_multiple_screeners", "save_scan_results">>

\* the steps the order is about (load_current_results is not one of them)
OrderedSteps == SelectSeq(steps, LAMBDA step : step # "load_current_results")

IsPrefix(a, b) == Len(a) <= Len(b) /\ SubSeq(b, 1, Len(a)) = a

C21_StepsInOrder ==
    /\ IsPrefix(OrderedSteps, CycleOrder)
    /\ pc = "sleep" => OrderedSteps = CycleOrder
    /\ pc \in {"loop", "hours", "off_hours_sleep", "probe"} => steps = <<>>

C21_NextCycleAfterSaveAndSleep ==
    [][/\ (steps # <<>> /\ steps' = <<>>) =>
            \/ pc = "sleep" /\ pc' = "loop" /\ OrderedSteps = CycleOrder
            \/ pc' = "exited"
       /\ (steps # <<>> /\ resultsFile' # resultsFile) =>
            (steps' = Append(steps, "save_scan_results") /\ pc' = "sleep")]_vars

C21_CycleStepsInFixedOrder ==
    [](C21_StepsInOrder) /\ C21_NextCycleAfterSaveAndSleep

\* a second cycle has gone through all its steps and changed the file the
\* first one left
C21_Witness ==
    /\ pc = "sleep"
    /\ OrderedSteps = CycleOrder
    /\ file_before_save.kind = "json"
    /\ file_before_save.data.screeners["one_hour_rsi"] # <<>>
    /\ resultsFile # file_before_save

\* ------------------------------------------------------------------------
\* C22: in every state persisted at the end of a cycle, every stock of every
\* screener list and every combined stock has a market_bias equal to the
\* market_bias of the state, whatever biases earlier cycles detected and
\* whatever scans failed.
\* ------------------------------------------------------------------------
C22_EveryStampIsTheStateBias ==
    pc = "sleep" =>
        /\ \A s \in SourceSet : \A i \in 1..Len(resultsFile.data.screeners[s]) :
              resultsFile.data.screeners[s][i].market_bias = resultsFile.data.market_bias
        /\ \A k \in 1..Len(resultsFile.data.combined_stocks) :
              resultsFile.data.combined_stocks[k].market_bias = resultsFile.data.market_bias

\* C22 as amended: in every state persisted at the end of a cycle, every
\* stock in the list of a screener whose load and scan succeeded in that
\* cycle, and every combined stock whose base stock comes from such a
\* screener, has the market_bias of the state; the list a failed screener
\* kept is the list the file held before, stamps included.
C22_StampsOfThisCycleAreTheStateBias ==
    pc = "sleep" =>
        LET data == resultsFile.data
        IN  /\ data.market_bias = market_bias
            /\ \A s \in SourceSet :
                  /\ ~Failed(s) =>
                        \A i \in 1..Len(data.screeners[s]) :
                            data.screeners[s][i].market_bias = data.market_bias
                  /\ Failed(s) =>
                        data.screeners[s] = load_current_results(file_before_save).screeners[s]
            /\ \A k \in 1..Len(data.combined_stocks) :
                  LET combined_stock == data.combined_stocks[k]
                      base == FirstSource(data.screeners, combined_stock.symbol)
                  IN  /\ combined_stock.market_bias
                           = FirstObservation(data.screeners[base], combined_stock.symbol).market_bias
                      /\ ~Failed(base) => combined_stock.market_bias = data.market_bias

\* the bias changed between two cycles: one screener failed and kept a stock
\* with the earlier stamp, another stored a stock with the new one, and the
\* two make a combined stock
C22_Witness ==
    /\ pc = "sleep"
    /\ Failed("price_crossover_200")
    /\ Len(resultsFile.data.screeners["price_crossover_200"]) = 1
    /\ resultsFile.data.screeners["price_crossover_200"][1].market_bias # resultsFile.data.market_bias
    /\ outcome["one_hour_rsi"] = "scanned"
    /\ Len(resultsFile.data.screeners["one_hour_rsi"]) = 1
    /\ resultsFile.data.screeners["one_hour_rsi"][1].market_bias = resultsFile.data.market_bias
    /\ Len(resultsFile.data.combined_stocks) = 1

====
